---- MODULE Spec2Model ----
(***************************************************************************)
(* Model of ExternalReorderHeadTransformer                                 *)
(* (extensions/amp-ad-network-fake-impl/0.1/                               *)
(*  external-reorder-head-transformer.js).                                 *)
(*                                                                         *)
(* A transformer object owns the registry headComponents, created once by  *)
(* the constructor.  reorderHead(head) classifies the children of head     *)
(* into the registry, clears head and appends the registry's contents in a *)
(* fixed order.  The DOM is modelled as the child sequences of the heads   *)
(* of two documents; appendChild moves a node that already has a parent.   *)
(*                                                                         *)
(* Strings that the code inspects with startsWith/endsWith are sequences   *)
(* of tokens whose concatenation is the string; the tokens are cut so that *)
(* every prefix and suffix the code tests lies on token boundaries.        *)
(***************************************************************************)
EXTENDS Integers, Sequences, FiniteSets, TLC

\* ------------------------------------------------------------------ bounds
MaxNodes == 2   \* element nodes that exist in the two documents
MaxCalls == 2   \* reorderHead calls in one behaviour
MaxChildren == 3  \* element nodes in the behaviours of a single call

Nodes   == 1..MaxNodes
HeadIds == {1, 2}

\* ------------------------------------------------------- strings and nulls
null == 0                     \* the null element reference of a single slot
NullString == <<"<null>">>    \* what getAttribute returns for an absent attribute

Str(s) == <<s>>
EmptyString == << >>

CDN      == <<"https:", "/", "/", "cdn.ampproject.org", "/">>
V0_JS    == <<"/", "v0", ".js">>
V0_JS_BR == <<"/", "v0", ".js", ".br">>
A4A_JS    == <<"/", "amp4ads-v0", ".js">>
A4A_JS_BR == <<"/", "amp4ads-v0", ".js", ".br">>
DOT_JS   == <<".js">>
V0_CSS   == <<"/", "v0", ".css">>
GMAIL_VIEWER_PREFIX == CDN \o <<"v0", "/", "amp-viewer-integration-", "gmail-">>
VIEWER_PREFIX       == CDN \o <<"v0", "/", "amp-viewer-integration-">>
GOOGLE_VIEWER_PREFIX == CDN \o <<"viewer", "/", "google", "/", "v">>

startsWith(string, prefix) ==
  /\ Len(prefix) <= Len(string)
  /\ SubSeq(string, 1, Len(prefix)) = prefix

endsWith(string, suffix) ==
  /\ Len(string) - Len(suffix) >= 0
  /\ SubSeq(string, Len(string) - Len(suffix) + 1, Len(string)) = suffix

\* ---------------------------------------------------------------- elements
Element(tag, attrs) == [tagName |-> tag, attrs |-> attrs]

\* The elements a head child is drawn from: at least one per bucket, plus the
\* ones whose classification depends on the order of the tests.
Elements == {
  Element("META",  {<<"charset", Str("utf-8")>>}),
  Element("META",  {<<"name", Str("viewport")>>}),
  Element("SCRIPT", {<<"async", EmptyString>>, <<"src", CDN \o <<"v0", ".js">> >>}),
  Element("SCRIPT", {<<"async", EmptyString>>,
                     <<"src", GMAIL_VIEWER_PREFIX \o <<"0.1", ".js">> >>}),
  Element("SCRIPT", {<<"async", EmptyString>>,
                     <<"src", VIEWER_PREFIX \o <<"0.1", ".js">> >>}),
  Element("SCRIPT", {<<"async", EmptyString>>, <<"custom-element", Str("amp-story")>>,
                     <<"src", CDN \o <<"v0", ".js">> >>}),
  Element("SCRIPT", {<<"async", EmptyString>>, <<"custom-template", Str("amp-mustache")>>,
                     <<"src", CDN \o <<"v0", "/", "amp-mustache-0.2", ".js">> >>}),
  Element("SCRIPT", {<<"type", Str("application/ld+json")>>}),
  Element("STYLE", {<<"amp-runtime", EmptyString>>}),
  Element("STYLE", {<<"amp-custom", EmptyString>>}),
  Element("STYLE", {<<"amp-boilerplate", EmptyString>>}),
  Element("LINK",  {<<"rel", Str("stylesheet")>>,
                    <<"href", CDN \o <<"rtv", "/", "v0", ".css">> >>}),
  Element("LINK",  {<<"rel", Str("stylesheet")>>,
                    <<"href", <<"https:", "/", "/", "example.com", "/", "a", ".css">> >>}),
  Element("LINK",  {<<"rel", Str("icon")>>}),
  Element("LINK",  {<<"rel", <<"dns-prefetch", " ", "preconnect">> >>}),
  Element("NOSCRIPT", {}),
  Element("TITLE", {}) }

VARIABLES
  elem,            \* elem[n]: the element (tag name, attributes) node n is
  heads,           \* heads[h]: head.children of document h, in order
  headComponents,  \* this.headComponents of the transformer in use
  call,            \* the last reorderHead call: argument, input children, outcome
  reordered,       \* reordered[h]: head h holds the output of a call on a new transformer
  used,            \* reorderHead has been called on the transformer in use
  ncalls           \* reorderHead calls made so far

vars == <<elem, heads, headComponents, call, reordered, used, ncalls>>

hasAttribute(n, name) == \E a \in elem[n].attrs : a[1] = name

getAttribute(n, name) ==
  IF hasAttribute(n, name)
  THEN (CHOOSE a \in elem[n].attrs : a[1] = name)[2]
  ELSE NullString

includes(list, n) == \E k \in 1..Len(list) : list[k] = n

\* ------------------------------------------------------------ constructor
NewHeadComponents ==
  [ metaOther |-> << >>,
    scriptNonRenderDelayingExtensions |-> << >>,
    scriptRenderDelayingExtensions |-> << >>,
    linkIcons |-> << >>,
    linkResourceHints |-> << >>,
    linkStylesheetBeforeAmpCustom |-> << >>,
    other |-> << >>,
    styleAmpRuntime |-> null,
    metaCharset |-> null,
    scriptAmpEngine |-> null,
    scriptAmpViewer |-> null,
    scriptGmailAmpViewer |-> null,
    styleAmpCustom |-> null,
    linkStylesheetRuntimeCss |-> null,
    styleAmpBoilerplate |-> null,
    noscript |-> null ]

\* ------------------------------------------------------------ classifiers
\* Mutant: the includes test inverted, so a META is never added to metaOther.
registerMeta_invertedIncludes(hc, element) ==
  IF hasAttribute(element, "charset")
  THEN [hc EXCEPT !.metaCharset = element]
  ELSE IF includes(hc.metaOther, element)
       THEN [hc EXCEPT !.metaOther = Append(@, element)]
       ELSE hc

\* Mutant: the metaCharset slot guarded, so the first charset META is kept.
registerMeta_firstWins(hc, element) ==
  IF hasAttribute(element, "charset")
  THEN IF hc.metaCharset = null THEN [hc EXCEPT !.metaCharset = element] ELSE hc
  ELSE IF ~includes(hc.metaOther, element)
       THEN [hc EXCEPT !.metaOther = Append(@, element)]
       ELSE hc

registerMeta(hc, element) ==
  IF hasAttribute(element, "charset")
  THEN [hc EXCEPT !.metaCharset = element]
  ELSE IF ~includes(hc.metaOther, element)
       THEN [hc EXCEPT !.metaOther = Append(@, element)]
       ELSE hc

registerScript(hc, element) ==
  LET src == getAttribute(element, "src")
      isAsync == hasAttribute(element, "async")
      isExtension == \/ hasAttribute(element, "custom-element")
                     \/ hasAttribute(element, "custom-template")
                     \/ hasAttribute(element, "host-service")
      custom == getAttribute(element, "custom-element")
  IN
  IF isExtension
  THEN IF \/ custom = Str("amp-story")
          \/ custom = Str("amp-experiment")
          \/ custom = Str("amp-dynamic-css-classes")
       THEN [hc EXCEPT !.scriptRenderDelayingExtensions = Append(@, element)]
       ELSE [hc EXCEPT !.scriptNonRenderDelayingExtensions = Append(@, element)]
  ELSE IF /\ isAsync
          /\ startsWith(src, CDN)
          /\ \/ endsWith(src, V0_JS)
             \/ endsWith(src, V0_JS_BR)
             \/ endsWith(src, A4A_JS)
             \/ endsWith(src, A4A_JS_BR)
  THEN [hc EXCEPT !.scriptAmpEngine = element]
  ELSE IF /\ isAsync
          /\ startsWith(src, GMAIL_VIEWER_PREFIX)
          /\ endsWith(src, DOT_JS)
  THEN [hc EXCEPT !.scriptGmailAmpViewer = element]
  ELSE IF /\ isAsync
          /\ \/ startsWith(src, VIEWER_PREFIX)
             \/ (startsWith(src, GOOGLE_VIEWER_PREFIX) /\ endsWith(src, DOT_JS))
  THEN [hc EXCEPT !.scriptAmpViewer = element]
  ELSE [hc EXCEPT !.other = Append(@, element)]

\* Mutant: the styleAmpCustom slot guarded, so the first STYLE amp-custom is
\* kept and a later one is dropped.
registerStyle_customFirstWins(hc, element) ==
  IF hasAttribute(element, "amp-runtime")
  THEN [hc EXCEPT !.styleAmpRuntime = element]
  ELSE IF hasAttribute(element, "amp-custom")
  THEN IF hc.styleAmpCustom = null THEN [hc EXCEPT !.styleAmpCustom = element] ELSE hc
  ELSE IF \/ hasAttribute(element, "amp-boilerplate")
          \/ hasAttribute(element, "amp4ads-boilerplate")
  THEN [hc EXCEPT !.styleAmpBoilerplate = element]
  ELSE [hc EXCEPT !.other = Append(@, element)]

registerStyle(hc, element) ==
  IF hasAttribute(element, "amp-runtime")
  THEN [hc EXCEPT !.styleAmpRuntime = element]
  ELSE IF hasAttribute(element, "amp-custom")
  THEN [hc EXCEPT !.styleAmpCustom = element]
  ELSE IF \/ hasAttribute(element, "amp-boilerplate")
          \/ hasAttribute(element, "amp4ads-boilerplate")
  THEN [hc EXCEPT !.styleAmpBoilerplate = element]
  ELSE [hc EXCEPT !.other = Append(@, element)]

\* The tests of registerLink that follow the rel == 'stylesheet' branch.
registerLinkNotStylesheet(hc, element, rel) ==
  IF \/ rel = Str("icon")
     \/ rel = <<"icon", " ", "shortcut">>
     \/ rel = <<"shortcut", " ", "icon">>
  THEN [hc EXCEPT !.linkIcons = Append(@, element)]
  ELSE IF rel = <<"dns-prefetch", " ", "preconnect">>
  THEN [hc EXCEPT !.linkResourceHints = Append(@, element)]
  ELSE [hc EXCEPT !.other = Append(@, element)]

\* Mutant: the styleAmpCustom test inverted (!= null for == null).
registerLink_invertedCustomCheck(hc, element) ==
  LET rel == getAttribute(element, "rel") IN
  IF rel = Str("stylesheet")
  THEN IF /\ startsWith(getAttribute(element, "href"), CDN)
          /\ endsWith(getAttribute(element, "href"), V0_CSS)
       THEN [hc EXCEPT !.linkStylesheetRuntimeCss = element]
       ELSE IF hc.styleAmpCustom # null
            THEN [hc EXCEPT !.linkStylesheetBeforeAmpCustom = Append(@, element)]
            ELSE hc
  ELSE registerLinkNotStylesheet(hc, element, rel)

\* Mutant: the final return of the stylesheet branch missing, so a
\* stylesheet link after the custom style falls through to the other list.
registerLink_fallThroughToOther(hc, element) ==
  LET rel == getAttribute(element, "rel") IN
  IF rel = Str("stylesheet")
  THEN IF /\ startsWith(getAttribute(element, "href"), CDN)
          /\ endsWith(getAttribute(element, "href"), V0_CSS)
       THEN [hc EXCEPT !.linkStylesheetRuntimeCss = element]
       ELSE IF hc.styleAmpCustom = null
            THEN [hc EXCEPT !.linkStylesheetBeforeAmpCustom = Append(@, element)]
            ELSE [hc EXCEPT !.other = Append(@, element)]
  ELSE registerLinkNotStylesheet(hc, element, rel)

registerLink(hc, element) ==
  LET rel == getAttribute(element, "rel") IN
  IF rel = Str("stylesheet")
  THEN IF /\ startsWith(getAttribute(element, "href"), CDN)
          /\ endsWith(getAttribute(element, "href"), V0_CSS)
       THEN [hc EXCEPT !.linkStylesheetRuntimeCss = element]
       ELSE IF hc.styleAmpCustom = null
            THEN [hc EXCEPT !.linkStylesheetBeforeAmpCustom = Append(@, element)]
            ELSE hc
  ELSE registerLinkNotStylesheet(hc, element, rel)

\* The switch on child.tagName in reorderHead.  The NOSCRIPT case has no
\* break: after setting the noscript slot it runs the default case too.
registerDefault(hc, child) ==
  IF ~includes(hc.other, child)
  THEN [hc EXCEPT !.other = Append(@, child)]
  ELSE hc

\* Mutant: a break after the NOSCRIPT case, so a NOSCRIPT child is held by
\* the noscript slot only.
registerChild_noscriptBreak(hc, child) ==
  LET tagName == elem[child].tagName IN
  CASE tagName = "META"     -> registerMeta(hc, child)
    [] tagName = "SCRIPT"   -> registerScript(hc, child)
    [] tagName = "STYLE"    -> registerStyle(hc, child)
    [] tagName = "LINK"     -> registerLink(hc, child)
    [] tagName = "NOSCRIPT" -> [hc EXCEPT !.noscript = child]
    [] OTHER                -> registerDefault(hc, child)

registerChild(hc, child) ==
  LET tagName == elem[child].tagName IN
  CASE tagName = "META"     -> registerMeta(hc, child)
    [] tagName = "SCRIPT"   -> registerScript(hc, child)
    [] tagName = "STYLE"    -> registerStyle(hc, child)
    [] tagName = "LINK"     -> registerLink(hc, child)
    [] tagName = "NOSCRIPT" -> registerDefault([hc EXCEPT !.noscript = child], child)
    [] OTHER                -> registerDefault(hc, child)

\* The for loop over head.children, from index i (1-based) to the end.
RECURSIVE registerChildren(_, _, _)
registerChildren(hc, children, i) ==
  IF i > Len(children) THEN hc
  ELSE registerChildren(registerChild(hc, children[i]), children, i + 1)

\* ---------------------------------------------------------------- the DOM
RECURSIVE without(_, _)
without(children, node) ==
  IF children = << >> THEN << >>
  ELSE IF Head(children) = node THEN without(Tail(children), node)
  ELSE <<Head(children)>> \o without(Tail(children), node)

\* parent.appendChild(child): a node has one parent and one position, so a
\* node that is already in a tree is removed from it first.
appendChild(dom, parent, child) ==
  [h \in HeadIds |-> IF h = parent THEN Append(without(dom[h], child), child)
                                   ELSE without(dom[h], child)]

\* head.innerHTML = '': all children of head are detached.
clearChildren(dom, head) == [dom EXCEPT ![head] = << >>]

appendIfNotNull_(dom, parent, element) ==
  IF element # null THEN appendChild(dom, parent, element) ELSE dom

RECURSIVE appendAllFrom(_, _, _, _)
appendAllFrom(dom, parent, element, i) ==
  IF i > Len(element) THEN dom
  ELSE appendAllFrom(appendChild(dom, parent, element[i]), parent, element, i + 1)

\* Mutant: the loop of appendAll_ running from the last index down.
RECURSIVE appendAllDownFrom(_, _, _, _)
appendAllDownFrom(dom, parent, element, i) ==
  IF i < 1 THEN dom
  ELSE appendAllDownFrom(appendChild(dom, parent, element[i]), parent, element, i - 1)

appendAll_backwards(dom, parent, element) ==
  appendAllDownFrom(dom, parent, element, Len(element))

appendAll_(dom, parent, element) == appendAllFrom(dom, parent, element, 1)

\* Mutant: the other list appended before styleAmpCustom.
repopulate_otherBeforeCustom(dom, head, hc) ==
  LET d1  == appendIfNotNull_(dom, head, hc.metaCharset)
      d2  == appendIfNotNull_(d1,  head, hc.linkStylesheetRuntimeCss)
      d3  == appendIfNotNull_(d2,  head, hc.styleAmpRuntime)
      d4  == appendAll_(d3,  head, hc.metaOther)
      d5  == appendIfNotNull_(d4,  head, hc.scriptAmpEngine)
      d6  == appendIfNotNull_(d5,  head, hc.scriptAmpViewer)
      d7  == appendIfNotNull_(d6,  head, hc.scriptGmailAmpViewer)
      d8  == appendAll_(d7,  head, hc.scriptRenderDelayingExtensions)
      d9  == appendAll_(d8,  head, hc.scriptNonRenderDelayingExtensions)
      d10 == appendAll_(d9,  head, hc.linkIcons)
      d11 == appendAll_(d10, head, hc.linkResourceHints)
      d12 == appendAll_(d11, head, hc.linkStylesheetBeforeAmpCustom)
      d13 == appendAll_(d12, head, hc.other)
      d14 == appendIfNotNull_(d13, head, hc.styleAmpCustom)
      d15 == appendIfNotNull_(d14, head, hc.styleAmpBoilerplate)
      d16 == appendIfNotNull_(d15, head, hc.noscript)
  IN d16

repopulate(dom, head, hc) ==
  LET d1  == appendIfNotNull_(dom, head, hc.metaCharset)
      d2  == appendIfNotNull_(d1,  head, hc.linkStylesheetRuntimeCss)
      d3  == appendIfNotNull_(d2,  head, hc.styleAmpRuntime)
      d4  == appendAll_(d3,  head, hc.metaOther)
      d5  == appendIfNotNull_(d4,  head, hc.scriptAmpEngine)
      d6  == appendIfNotNull_(d5,  head, hc.scriptAmpViewer)
      d7  == appendIfNotNull_(d6,  head, hc.scriptGmailAmpViewer)
      d8  == appendAll_(d7,  head, hc.scriptRenderDelayingExtensions)
      d9  == appendAll_(d8,  head, hc.scriptNonRenderDelayingExtensions)
      d10 == appendAll_(d9,  head, hc.linkIcons)
      d11 == appendAll_(d10, head, hc.linkResourceHints)
      d12 == appendAll_(d11, head, hc.linkStylesheetBeforeAmpCustom)
      d13 == appendIfNotNull_(d12, head, hc.styleAmpCustom)
      d14 == appendAll_(d13, head, hc.other)
      d15 == appendIfNotNull_(d14, head, hc.styleAmpBoilerplate)
      d16 == appendIfNotNull_(d15, head, hc.noscript)
  IN d16

\* reorderHead(head) on a transformer whose registry is hc, in the DOM dom.
\* With head = null the loop is skipped and the assignment to head.innerHTML
\* throws a TypeError before anything is changed.
reorderHead(dom, hc, head) ==
  IF head # null
  THEN LET hc1 == registerChildren(hc, dom[head], 1)
       IN [dom |-> repopulate(clearChildren(dom, head), head, hc1),
           hc |-> hc1, outcome |-> "returned", ret |-> head]
  ELSE [dom |-> dom, hc |-> hc, outcome |-> "TypeError", ret |-> null]

\* ------------------------------------------------------------ the machine
NoCall == [arg |-> null, input |-> << >>, fresh |-> FALSE, again |-> FALSE,
           outcome |-> "none", ret |-> null]

\* Document 1 has the nodes 1..k in its head, document 2 the others (at most
\* one).  With no nodes at all both heads are empty.
Init ==
  /\ elem \in [Nodes -> Elements]
  /\ \E k \in {j \in 0..MaxNodes : j + 1 >= MaxNodes} :
       heads = [h \in HeadIds |->
                  IF h = 1 THEN [j \in 1..k |-> j]
                           ELSE [j \in 1..(MaxNodes - k) |-> k + j]]
  /\ headComponents = NewHeadComponents
  /\ call = NoCall
  /\ reordered = [h \in HeadIds |-> FALSE]
  /\ used = FALSE
  /\ ncalls = 0

\* new ExternalReorderHeadTransformer()
Construct ==
  /\ headComponents' = NewHeadComponents
  /\ used' = FALSE
  /\ call' = NoCall
  /\ UNCHANGED <<elem, heads, reordered, ncalls>>

\* transformer.reorderHead(head), head a head element or null
ReorderHead(head) ==
  /\ ncalls < MaxCalls
  /\ LET r == reorderHead(heads, headComponents, head) IN
     /\ heads' = r.dom
     /\ headComponents' = r.hc
     /\ call' = [arg |-> head,
                 input |-> IF head # null THEN heads[head] ELSE << >>,
                 fresh |-> ~used,
                 again |-> IF head # null THEN reordered[head] ELSE FALSE,
                 outcome |-> r.outcome, ret |-> r.ret]
     /\ reordered' = [h \in HeadIds |->
                        IF h = head THEN ~used
                        ELSE reordered[h] /\ r.dom[h] = heads[h]]
  /\ used' = TRUE
  /\ ncalls' = ncalls + 1
  /\ UNCHANGED elem

ReorderHeadElement == \E head \in HeadIds : ReorderHead(head)

ReorderHeadNull == ReorderHead(null)

Next == Construct \/ ReorderHeadElement \/ ReorderHeadNull

Spec == Init /\ [][Next]_vars

\* The behaviours of one reorderHead call on a newly constructed transformer,
\* over larger heads: document 1 has all the nodes, document 2 an empty head.
InitSingle ==
  /\ elem \in [1..MaxChildren -> Elements]
  /\ heads = [h \in HeadIds |-> IF h = 1 THEN [j \in 1..MaxChildren |-> j] ELSE << >>]
  /\ headComponents = NewHeadComponents
  /\ call = NoCall
  /\ reordered = [h \in HeadIds |-> FALSE]
  /\ used = FALSE
  /\ ncalls = 0

ReorderHeadFirst == ~used /\ ReorderHeadElement

NextSingle == ReorderHeadFirst

SpecSingle == InitSingle /\ [][NextSingle]_vars

TypeOK ==
  /\ \A h \in HeadIds : \A j, k \in 1..Len(heads[h]) : heads[h][j] = heads[h][k] => j = k
  /\ ncalls \in 0..MaxCalls

\* ------------------------------------------------------------- vocabulary
\* The last call returned, and it was made on a newly constructed transformer.
Returned  == call.outcome = "returned"
FreshCall == Returned /\ call.fresh

SingleSlots == {"metaCharset", "linkStylesheetRuntimeCss", "styleAmpRuntime",
                "scriptAmpEngine", "scriptAmpViewer", "scriptGmailAmpViewer",
                "styleAmpCustom", "styleAmpBoilerplate", "noscript"}

BucketOrder ==
  <<"metaCharset", "linkStylesheetRuntimeCss", "styleAmpRuntime", "metaOther",
    "scriptAmpEngine", "scriptAmpViewer", "scriptGmailAmpViewer",
    "scriptRenderDelayingExtensions", "scriptNonRenderDelayingExtensions",
    "linkIcons", "linkResourceHints", "linkStylesheetBeforeAmpCustom",
    "styleAmpCustom", "other", "styleAmpBoilerplate", "noscript">>

Rank(bucket) == CHOOSE k \in 1..Len(BucketOrder) : BucketOrder[k] = bucket

RegisteredIn(hc, n, bucket) ==
  IF bucket \in SingleSlots THEN hc[bucket] = n ELSE includes(hc[bucket], n)

Registered(hc, n) == \E k \in 1..Len(BucketOrder) : RegisteredIn(hc, n, BucketOrder[k])

\* The bucket of a registered node.  The last NOSCRIPT child is held by the
\* noscript slot and by the other list; its bucket is noscript, the later of
\* the two, from which it is appended last.
BucketRank(hc, n) ==
  IF hc.noscript = n THEN Rank("noscript")
  ELSE CHOOSE k \in 1..Len(BucketOrder) : RegisteredIn(hc, n, BucketOrder[k])

Range(seq) == {seq[k] : k \in 1..Len(seq)}
Pos(seq, n) == CHOOSE k \in 1..Len(seq) : seq[k] = n
Occurrences(seq, n) == Cardinality({k \in 1..Len(seq) : seq[k] = n})
Before(seq, a, b) == Pos(seq, a) < Pos(seq, b)

\* Output children and input children of the last call (which returned).
Output == heads[call.arg]
Input  == call.input

\* What an element is, read from its tag and attributes.
IsCharsetMeta(n) == elem[n].tagName = "META" /\ hasAttribute(n, "charset")
IsAmpCustomStyle(n) ==
  /\ elem[n].tagName = "STYLE"
  /\ ~hasAttribute(n, "amp-runtime")
  /\ hasAttribute(n, "amp-custom")
IsPlainStylesheetLink(n) ==
  /\ elem[n].tagName = "LINK"
  /\ getAttribute(n, "rel") = Str("stylesheet")
  /\ ~(startsWith(getAttribute(n, "href"), CDN) /\ endsWith(getAttribute(n, "href"), V0_CSS))
IsNoscript(n) == elem[n].tagName = "NOSCRIPT"

\* Node n, classified alone, is put into single slot s.
Matches(n, s) == registerChild(NewHeadComponents, n)[s] = n

\* Node n sits in the output at the place of bucket number k: after every
\* child of an earlier bucket and before every child of a later one.
AtBucketPosition(n, k) ==
  /\ n \in Range(Output)
  /\ \A m \in Range(Output) \ {n} :
       /\ BucketRank(headComponents, m) < k => Before(Output, m, n)
       /\ BucketRank(headComponents, m) > k => Before(Output, n, m)

\* ------------------------------------------------------------------ claims

\* C1: after reorderHead on a newly constructed transformer, of two output
\* children of different buckets the one whose bucket comes earlier in the
\* fixed sequence precedes the other, whatever the input order was.
C1_FixedCrossBucketOrder ==
  FreshCall =>
    \A a, b \in Range(Output) :
      BucketRank(headComponents, a) < BucketRank(headComponents, b)
        => Before(Output, a, b)

\* C1 witness: two children of different buckets whose input order was the
\* reverse of the bucket order.
C1_Witness ==
  /\ FreshCall
  /\ \E a, b \in Range(Output) :
       /\ BucketRank(headComponents, a) < BucketRank(headComponents, b)
       /\ Before(Input, b, a)

\* C2: reorderHead on a new transformer, applied to a head that is the output
\* of reorderHead on a new transformer, leaves the child sequence unchanged.
C2_Idempotent ==
  (FreshCall /\ call.again) => Output = Input

\* C2 witness: a second pass over a head of two or more children that the
\* first pass had produced.
C2_Witness ==
  /\ FreshCall /\ call.again
  /\ Len(Input) >= 2
  /\ Output = Input

\* C3 (as claimed): whatever the transformer was used for before, reorderHead
\* yields the children a newly constructed transformer would yield.
C3_NoCrossCallState ==
  Returned =>
    Output = reorderHead([heads EXCEPT ![call.arg] = Input],
                         NewHeadComponents, call.arg).dom[call.arg]

\* C4 (as claimed): every input child occurs exactly once in the output,
\* except a charset META when another charset META is present and a
\* non-runtime stylesheet LINK that follows a STYLE amp-custom.
DuplicateCharsetMeta(n) ==
  IsCharsetMeta(n) /\ \E m \in Range(Input) \ {n} : IsCharsetMeta(m)
StylesheetAfterCustom(n) ==
  IsPlainStylesheetLink(n) /\ \E m \in Range(Input) : IsAmpCustomStyle(m) /\ Before(Input, m, n)

C4_CompleteButTwoDropRules ==
  FreshCall =>
    \A n \in Range(Input) :
      ~(DuplicateCharsetMeta(n) \/ StylesheetAfterCustom(n))
        => Occurrences(Output, n) = 1

\* C4 (amended): a third exception is a child that matches one of the single
\* slots scriptAmpEngine, scriptAmpViewer, scriptGmailAmpViewer,
\* styleAmpRuntime, styleAmpCustom, styleAmpBoilerplate,
\* linkStylesheetRuntimeCss when a later input child matches the same slot.
OverwriteSlots == {"scriptAmpEngine", "scriptAmpViewer", "scriptGmailAmpViewer",
                   "styleAmpRuntime", "styleAmpCustom", "styleAmpBoilerplate",
                   "linkStylesheetRuntimeCss"}
SlotsMatched(n) ==
  LET hc == registerChild(NewHeadComponents, n) IN {s \in OverwriteSlots : hc[s] = n}
OverwrittenInSlot(n) ==
  LET S == SlotsMatched(n) IN
  /\ S # {}
  /\ \E m \in Range(Input) : Before(Input, n, m) /\ SlotsMatched(m) \cap S # {}

C4_CompleteButThreeDropRules ==
  FreshCall =>
    \A n \in Range(Input) :
      ~(DuplicateCharsetMeta(n) \/ StylesheetAfterCustom(n) \/ OverwrittenInSlot(n))
        => Occurrences(Output, n) = 1

\* C4 witness: an input with a dropped child and a kept one.
C4_Witness ==
  /\ FreshCall
  /\ \E n \in Range(Input) : OverwrittenInSlot(n) /\ n \notin Range(Output)
  /\ \E n \in Range(Input) : ~OverwrittenInSlot(n) /\ Occurrences(Output, n) = 1

\* C5 (as claimed): of two or more charset METAs the output holds the first
\* in input order, as first child, and none of the later ones.
CharsetMetas == {n \in Range(Input) : IsCharsetMeta(n)}

ListBuckets == {"metaOther", "scriptRenderDelayingExtensions",
                "scriptNonRenderDelayingExtensions", "linkIcons",
                "linkResourceHints", "linkStylesheetBeforeAmpCustom", "other"}

SameListBucket(a, b) ==
  /\ a # b
  /\ BucketRank(headComponents, a) = BucketRank(headComponents, b)
  /\ BucketOrder[BucketRank(headComponents, a)] \in ListBuckets

C7_StylesheetLinkOrderSensitive ==
  FreshCall =>
    \A n \in Range(Input) :
      IsPlainStylesheetLink(n) =>
        IF StylesheetAfterCustom(n)
        THEN n \notin Range(Output) /\ ~includes(headComponents.other, n)
        ELSE AtBucketPosition(n, Rank("linkStylesheetBeforeAmpCustom"))

\* C7 witness: one stylesheet link kept before the custom style, another
\* dropped because it follows the custom style in the input.
C7_Witness ==
  /\ FreshCall
  /\ \E n \in Range(Input) : StylesheetAfterCustom(n) /\ n \notin Range(Output)
  /\ \E n \in Range(Input) :
       /\ IsPlainStylesheetLink(n) /\ ~StylesheetAfterCustom(n)
       /\ n \in Range(Output)
       /\ headComponents.styleAmpCustom \in Range(Output)

\* C8 (as claimed): reorderHead(null) returns null without a fault.
C8_NullHeadReturnsNull ==
  (call.outcome # "none" /\ call.arg = null) =>
    (call.outcome = "returned" /\ call.ret = null)

\* C9: when several input children match one of the overwriting single
\* slots, the last of them in input order is in the output at the slot's
\* place and the earlier ones are nowhere in the output.
C9_LaterMatchOverwrites ==
  FreshCall =>
    \A s \in OverwriteSlots :
      LET M == {n \in Range(Input) : Matches(n, s)} IN
      Cardinality(M) >= 2 =>
        \A n \in M :
          IF \A m \in M \ {n} : Before(Input, m, n)
          THEN headComponents[s] = n /\ AtBucketPosition(n, Rank(s))
          ELSE n \notin Range(Output)

\* C9 witness: two children matching the same single slot.
C9_Witness ==
  /\ FreshCall
  /\ \E s \in OverwriteSlots :
       Cardinality({n \in Range(Input) : Matches(n, s)}) >= 2

\* C10: a NOSCRIPT child is registered in the noscript slot and in the other
\* list, yet no node occurs twice in the output: the last NOSCRIPT is the
\* final child, every earlier NOSCRIPT is in the other group in input order
\* with the group's other members, and the output has as many children as
\* there are distinct registered nodes.
Noscripts == {n \in Range(Input) : IsNoscript(n)}
LastNoscript(n) == n \in Noscripts /\ \A m \in Noscripts \ {n} : Before(Input, m, n)

C10_NoscriptOnceAndLast ==
  FreshCall =>
    /\ \A n \in Range(Output) : Occurrences(Output, n) = 1
    /\ Len(Output) = Cardinality({n \in DOMAIN elem : Registered(headComponents, n)})
    /\ \A n \in Noscripts :
         /\ includes(headComponents.other, n)
         /\ IF LastNoscript(n)
            THEN /\ headComponents.noscript = n
                 /\ Occurrences(Output, n) = 1
                 /\ Output[Len(Output)] = n
            ELSE /\ AtBucketPosition(n, Rank("other"))
                 /\ \A m \in Range(Output) \ {n} :
                      BucketRank(headComponents, m) = Rank("other")
                        => (Before(Output, n, m) <=> Before(Input, n, m))

\* C10 witness: two NOSCRIPT children and the boilerplate style; the last
\* NOSCRIPT, held by slot and list, is the final child, the earlier one is
\* in the other group.
C10_Witness ==
  /\ FreshCall
  /\ headComponents.noscript # null
  /\ includes(headComponents.other, headComponents.noscript)
  /\ headComponents.styleAmpBoilerplate # null
  /\ \E n \in Noscripts : ~LastNoscript(n) /\ n \in Range(Output)
  /\ Output[Len(Output)] = headComponents.noscript
====
